---- MODULE Spec2Model ----
(***************************************************************************)
(* Model of the MCP tool servers of ai-portainer-dashboard:                *)
(*   tools/nvd-mcp/server.py    CVE lookups behind BearerTokenMiddleware   *)
(*   tools/kali-mcp/server.py   allowlisted command runner                 *)
(*   tools/grype-mcp/server.py  grype scanner facade                       *)
(*   tools/snyk-mcp/server.py   snyk scanner facade                        *)
(*                                                                         *)
(* Caller-supplied Python strings are sequences of Unicode code points     *)
(* (below 256: what an HTTP header decoded as latin-1 can hold).  Fixed    *)
(* message texts of the servers are TLA+ strings.  Text captured from an   *)
(* external process or an HTTP body is a slice [lo, hi) of the text the    *)
(* collaborator produced, so that head and tail truncation are computed    *)
(* as the code computes them.                                              *)
(*                                                                         *)
(* Each server.py is a program of its own.  The kali, grype and snyk tools *)
(* are plain functions: a call runs to its end in one step.  The nvd tools *)
(* are coroutines behind a middleware, and both give control back to the   *)
(* event loop: dispatch at `await call_next`, the tool while its GET to    *)
(* the NVD API is outstanding.  A request to the nvd server so takes up to *)
(* three steps (the gate, the tool up to the GET, the tool from the answer *)
(* on) and other requests are handled in between.                          *)
(***************************************************************************)
EXTENDS Integers, Sequences, FiniteSets, Bags, TLC

VARIABLES
    MCP_AUTH_TOKEN,      \* environment: shared secret (nvd server.py:19)
    ALLOWED_COMMANDS,    \* kali server.py:10-12, set of strings
    ALLOW_ALL_COMMANDS,  \* kali server.py:13
    NVD_API_KEY,         \* nvd server.py:22
    program,             \* which server.py this process runs
    pending,             \* bag of nvd requests in progress (admitted, or GET outstanding)
    server,              \* server that took the last step ("none": none on record)
    tool,                \* tool the request of that step named
    header,              \* Authorization header the middleware read in that step
    args,                \* the arguments the tool was called with, <<>> when none was
    gate,                \* what the bearer gate did with the request
    ran,                 \* TRUE iff the tool function was entered
    spawned,             \* subprocess.run invocations made, in order
    sent,                \* outbound HTTP requests of the request, in order
    ext,                 \* what the external process or upstream API did
    ret                  \* what the tool function returned or raised

vars == <<MCP_AUTH_TOKEN, ALLOWED_COMMANDS, ALLOW_ALL_COMMANDS, NVD_API_KEY, program,
          pending, server, tool, header, args, gate, ran, spawned, sent, ext, ret>>

config == <<MCP_AUTH_TOKEN, ALLOWED_COMMANDS, ALLOW_ALL_COMMANDS, NVD_API_KEY, program>>

(***************************************************************************)
(* Python str primitives on code-point sequences                           *)
(***************************************************************************)

Max(a, b) == IF a >= b THEN a ELSE b
Min(a, b) == IF a <= b THEN a ELSE b

\* s[i:] for 0 <= i
Drop(s, i) == IF i >= Len(s) THEN <<>> ELSE SubSeq(s, i + 1, Len(s))

\* s[:n] for 0 <= n
Take(s, n) == IF n >= Len(s) THEN s ELSE SubSeq(s, 1, n)

\* str.startswith
StartsWith(s, p) == Len(s) >= Len(p) /\ SubSeq(s, 1, Len(p)) = p

\* str.isspace for one code point below 256
IsSpace(c) == c \in (9..13) \cup (28..32) \cup {133, 160}

\* str.lstrip(): s from its first character that is not whitespace
LStrip(s) ==
    IF s = <<>> \/ ~IsSpace(s[1]) THEN s
    ELSE LET kept == {i \in 1..Len(s) : ~IsSpace(s[i])} IN
         IF kept = {} THEN <<>>
         ELSE SubSeq(s, CHOOSE i \in kept : \A j \in 1..(i - 1) : IsSpace(s[j]), Len(s))

\* str.rstrip(): s up to its last character that is not whitespace
RStrip(s) ==
    IF s = <<>> \/ ~IsSpace(s[Len(s)]) THEN s
    ELSE LET kept == {i \in 1..Len(s) : ~IsSpace(s[i])} IN
         IF kept = {} THEN <<>>
         ELSE SubSeq(s, 1, CHOOSE i \in kept : \A j \in (i + 1)..Len(s) : IsSpace(s[j]))

\* str.strip()
Strip(s) == RStrip(LStrip(s))

\* str.lower() of one code point below 256
LowerChar(c) ==
    IF c \in 65..90 \/ (c \in 192..222 /\ c # 215) THEN c + 32 ELSE c

\* str.lower()
Lower(s) == [i \in 1..Len(s) |-> LowerChar(s[i])]

\* str.upper() of one code point below 256 (a string: some grow or move)
UpperChar(c) ==
    IF c \in 97..122 \/ (c \in 224..254 /\ c # 247) THEN <<c - 32>>
    ELSE IF c = 223 THEN <<83, 83>>
    ELSE IF c = 181 THEN <<924>>
    ELSE IF c = 255 THEN <<376>>
    ELSE <<c>>

RECURSIVE Upper(_)
Upper(s) == IF s = <<>> THEN <<>> ELSE UpperChar(Head(s)) \o Upper(Tail(s))

\* str.split(sep) for a one-character separator: the list of fields
RECURSIVE SplitOn(_, _, _)
SplitOn(s, sep, cur) ==
    IF s = <<>> THEN <<cur>>
    ELSE IF Head(s) = sep THEN <<cur>> \o SplitOn(Tail(s), sep, <<>>)
    ELSE SplitOn(Tail(s), sep, Append(cur, Head(s)))

Range(f) == {f[i] : i \in DOMAIN f}

\* Python's ordering of str: lexicographic by code point
RECURSIVE StrLess(_, _)
StrLess(a, b) ==
    IF b = <<>> THEN FALSE
    ELSE IF a = <<>> THEN TRUE
    ELSE IF Head(a) # Head(b) THEN Head(a) < Head(b)
    ELSE StrLess(Tail(a), Tail(b))

\* sorted(S) for a set of str
RECURSIVE Sorted(_)
Sorted(S) ==
    IF S = {} THEN <<>>
    ELSE LET m == CHOOSE x \in S : \A y \in S \ {x} : StrLess(x, y)
         IN <<m>> \o Sorted(S \ {m})

\* sep.join(list)
RECURSIVE Join(_, _)
Join(sep, l) ==
    IF l = <<>> THEN <<>>
    ELSE IF Len(l) = 1 THEN l[1]
    ELSE l[1] \o sep \o Join(sep, Tail(l))

(***************************************************************************)
(* Text literals of the servers, as code points                            *)
(***************************************************************************)

BearerPrefix == <<66, 101, 97, 114, 101, 114, 32>>          \* "Bearer "
CommaSpace == <<44, 32>>                                   \* ", "
AllSentinel == <<97, 108, 108>>                            \* "all"
StrWhoami == <<119, 104, 111, 97, 109, 105>>               \* "whoami"
StrRmRf == <<114, 109, 32, 45, 114, 102, 32, 47>>          \* "rm -rf /"
\* "whoami,id,uname,ip,df,free,ps,ss,ls,cat"
DefaultAllowedEnv ==
    <<119, 104, 111, 97, 109, 105, 44, 105, 100, 44, 117, 110, 97, 109, 101, 44,
      105, 112, 44, 100, 102, 44, 102, 114, 101, 101, 44, 112, 115, 44, 115, 115,
      44, 108, 115, 44, 99, 97, 116>>

(***************************************************************************)
(* Captured text of a collaborator: the slice [lo, hi) of what it wrote    *)
(***************************************************************************)

Text(n) == [lo |-> 0, hi |-> n]
\* t[-n:]
LastChars(t, n) == [lo |-> Max(t.lo, t.hi - n), hi |-> t.hi]
\* t[:n]
FirstChars(t, n) == [lo |-> t.lo, hi |-> Min(t.hi, t.lo + n)]
\* truthiness of a str
NonEmpty(t) == t.hi > t.lo

(***************************************************************************)
(* nvd-mcp: BearerTokenMiddleware                                          *)
(***************************************************************************)

\* request.headers.get("Authorization", ""): headers is <<>> or <<value>>
HeadersGet(h, default) == IF h = <<>> THEN default ELSE h[1]

IsAscii(s) == \A i \in 1..Len(s) : s[i] < 128

\* secrets.compare_digest on two str: TypeError unless both are ASCII
compare_digest(a, b) ==
    IF ~(IsAscii(a) /\ IsAscii(b)) THEN "TypeError"
    ELSE IF a = b THEN "True" ELSE "False"

\* BearerTokenMiddleware.dispatch: what it does with one request
dispatch(token, headers) ==
    IF token = <<>> THEN
        [result |-> "pass", status_code |-> 0, error |-> "", call_next |-> 1]
    ELSE
        LET auth_header == HeadersGet(headers, <<>>) IN
        IF ~StartsWith(auth_header, BearerPrefix) THEN
            [result |-> "reject", status_code |-> 401,
             error |-> "Missing or malformed Authorization header", call_next |-> 0]
        ELSE
            LET provided_token == Drop(auth_header, Len(BearerPrefix))
                same == compare_digest(provided_token, token)
            IN IF same = "TypeError" THEN
                   [result |-> "raise", status_code |-> 0, error |-> "TypeError",
                    call_next |-> 0]
               ELSE IF same = "False" THEN
                   [result |-> "reject", status_code |-> 403,
                    error |-> "Invalid bearer token", call_next |-> 0]
               ELSE
                   [result |-> "pass", status_code |-> 0, error |-> "", call_next |-> 1]

\* kali, grype and snyk start FastMCP's own app: no middleware is installed
NoGate == [result |-> "none", status_code |-> 0, error |-> "", call_next |-> 0]

(***************************************************************************)
(* kali-mcp: run_allowed                                                   *)
(***************************************************************************)

MAX_TIMEOUT == 30
KALI_STDOUT_TAIL == 6000
KALI_STDERR_TAIL == 2000

\* ALLOWED_COMMANDS = set(os.getenv(..., default).split(","))
AllowedCommandsOf(env) == Range(SplitOn(env, 44, <<>>))

\* the sentinel test without strip() and lower()
AllowAllOf_Exact(allowed) == AllSentinel \in allowed

\* ALLOW_ALL_COMMANDS = "all" in {cmd.strip().lower() for cmd in ALLOWED_COMMANDS}
AllowAllOf(allowed) == AllSentinel \in {Lower(Strip(cmd)) : cmd \in allowed}

\* shlex (posix, whitespace_split, no commenters): character classes
ShWhitespace == {32, 9, 13, 10}
ShQuotes == {39, 34}
ShEscape == 92
ShEscapedQuotes == {34}

\* shlex.shlex.read_token over the rest of the input, token after token.
\*   st: " " between tokens, "a" in a word, "q" inside quotes, "e" after escape
\*   qc: the open quote character; es: escapedstate ("a" or "q")
RECURSIVE Lex(_, _, _, _, _, _, _)
Lex(s, st, qc, es, tok, quoted, acc) ==
    IF s = <<>> THEN
        IF st = "q" THEN [ok |-> FALSE, error |-> "No closing quotation", parts |-> <<>>]
        ELSE IF st = "e" THEN [ok |-> FALSE, error |-> "No escaped character", parts |-> <<>>]
        ELSE [ok |-> TRUE, error |-> "",
              parts |-> IF tok # <<>> \/ quoted THEN Append(acc, tok) ELSE acc]
    ELSE
        LET c == Head(s)
            r == Tail(s)
        IN
        IF st = " " THEN
            IF c \in ShWhitespace THEN Lex(r, " ", qc, es, tok, quoted, acc)
            ELSE IF c = ShEscape THEN Lex(r, "e", qc, "a", tok, quoted, acc)
            ELSE IF c \in ShQuotes THEN Lex(r, "q", c, es, tok, TRUE, acc)
            ELSE Lex(r, "a", qc, es, <<c>>, quoted, acc)
        ELSE IF st = "q" THEN
            IF c = qc THEN Lex(r, "a", qc, es, tok, TRUE, acc)
            ELSE IF c = ShEscape /\ qc \in ShEscapedQuotes THEN
                Lex(r, "e", qc, "q", tok, TRUE, acc)
            ELSE Lex(r, "q", qc, es, Append(tok, c), TRUE, acc)
        ELSE IF st = "e" THEN
            LET keep == es = "q" /\ c # ShEscape /\ c # qc
                tok2 == IF keep THEN tok \o <<ShEscape, c>> ELSE Append(tok, c)
            IN Lex(r, es, qc, es, tok2, quoted, acc)
        ELSE \* st = "a"
            IF c \in ShWhitespace THEN
                IF tok # <<>> \/ quoted
                THEN Lex(r, " ", qc, es, <<>>, FALSE, Append(acc, tok))
                ELSE Lex(r, " ", qc, es, tok, quoted, acc)
            ELSE IF c \in ShQuotes THEN Lex(r, "q", c, es, tok, TRUE, acc)
            ELSE IF c = ShEscape THEN Lex(r, "e", qc, "a", tok, quoted, acc)
            ELSE Lex(r, "a", qc, es, Append(tok, c), quoted, acc)

\* shlex.split(cmd)
shlex_split(cmd) == Lex(cmd, " ", 0, "a", <<>>, FALSE, <<>>)

NoReturn == [kind |-> "none"]
Raise(exc) == [kind |-> "raise", exc |-> exc]
NoProc == [kind |-> "none"]

\* one subprocess.run(argv, capture_output=True, text=True, timeout=t, check=False)
RunCall(argv, t) == [argv |-> argv, timeout |-> t]

\* an argument of the call holds a NUL character
HasNul(argv) == \E i \in 1..Len(argv) : \E j \in 1..Len(argv[i]) : argv[i][j] = 0

\* what the call does: with a NUL in an argument subprocess.run refuses before
\* any process is started; otherwise the external process decides
RunOutcome(argv, out) == IF HasNul(argv) THEN [kind |-> "nullbyte"] ELSE out

\* the exception subprocess.run raises for an outcome of the call: the process
\* outlives the timeout, the executable is missing, is not executable, or is
\* not in an executable format, the captured output is not UTF-8 (text=True),
\* or an argument holds a NUL
RunRaises(out) ==
    IF out.kind = "timeout" THEN "TimeoutExpired"
    ELSE IF out.kind = "notfound" THEN "FileNotFoundError"
    ELSE IF out.kind = "permission" THEN "PermissionError"
    ELSE IF out.kind = "execformat" THEN "OSError"
    ELSE IF out.kind = "undecodable" THEN "UnicodeDecodeError"
    ELSE IF out.kind = "nullbyte" THEN "ValueError"
    ELSE ""

\* the allowlist test comparing the first token without regard to letter case
Blocked_IgnoreCase(parts, allow_all, allowed) ==
    ~allow_all /\ Lower(parts[1]) \notin allowed

\* the allowlist test of run_allowed (server.py:31): TRUE means "Blocked"
Blocked(parts, allow_all, allowed) == ~allow_all /\ parts[1] \notin allowed

\* run_allowed(cmd, timeout_sec) when the external process behaves as `out`
run_allowed(cmd, timeout_sec, allow_all, allowed, out) ==
    LET sp == shlex_split(cmd) IN
    IF ~sp.ok THEN [ret |-> Raise("ValueError"), spawned |-> <<>>]
    ELSE IF sp.parts = <<>> THEN
        [ret |-> [kind |-> "str", form |-> "plain", text |-> "Empty command."],
         spawned |-> <<>>]
    ELSE IF Blocked(sp.parts, allow_all, allowed) THEN
        [ret |-> [kind |-> "str", form |-> "plain",
                  text |-> "Blocked. Allowed commands: {}",
                  interp |-> Join(CommaSpace, Sorted(allowed))],
         spawned |-> <<>>]
    ELSE
        LET timeout == Max(1, Min(timeout_sec, MAX_TIMEOUT))
            call == RunCall(sp.parts, timeout)
            proc == RunOutcome(sp.parts, out)
        IN IF RunRaises(proc) # "" THEN
               [ret |-> Raise(RunRaises(proc)), spawned |-> <<call>>]
           ELSE
               [ret |-> [kind |-> "str", form |-> "plain",
                         text |-> "exit={}\nstdout:\n{}\nstderr:\n{}",
                         returncode |-> proc.returncode,
                         out |-> LastChars(proc.stdout, KALI_STDOUT_TAIL),
                         err |-> LastChars(proc.stderr, KALI_STDERR_TAIL)],
                spawned |-> <<call>>]

(***************************************************************************)
(* grype-mcp and snyk-mcp                                                  *)
(***************************************************************************)

StrGrype == <<103, 114, 121, 112, 101>>    \* "grype"
StrSnyk == <<115, 110, 121, 107>>    \* "snyk"
StrDashO == <<45, 111>>    \* "-o"
StrJson == <<106, 115, 111, 110>>    \* "json"
StrFailOn == <<45, 45, 102, 97, 105, 108, 45, 111, 110>>    \* "--fail-on"
StrDirColon == <<100, 105, 114, 58>>    \* "dir:"
StrSbomColon == <<115, 98, 111, 109, 58>>    \* "sbom:"
StrDb == <<100, 98>>    \* "db"
StrStatus == <<115, 116, 97, 116, 117, 115>>    \* "status"
StrUpdate == <<117, 112, 100, 97, 116, 101>>    \* "update"
StrTest == <<116, 101, 115, 116>>    \* "test"
StrDashJson == <<45, 45, 106, 115, 111, 110>>    \* "--json"
StrPackageManager == <<45, 45, 112, 97, 99, 107, 97, 103, 101, 45, 109, 97, 110, 97, 103, 101, 114>>    \* "--package-manager"
StrCode == <<99, 111, 100, 101>>    \* "code"
StrContainer == <<99, 111, 110, 116, 97, 105, 110, 101, 114>>    \* "container"
StrIac == <<105, 97, 99>>    \* "iac"
StrVersion == <<118, 101, 114, 115, 105, 111, 110>>    \* "version"
StrAuth == <<97, 117, 116, 104>>    \* "auth"
StrToken == <<45, 45, 116, 111, 107, 101, 110>>    \* "--token"
StrNegligible == <<110, 101, 103, 108, 105, 103, 105, 98, 108, 101>>    \* "negligible"
StrLow == <<108, 111, 119>>    \* "low"
StrMedium == <<109, 101, 100, 105, 117, 109>>    \* "medium"
StrHigh == <<104, 105, 103, 104>>    \* "high"
StrCritical == <<99, 114, 105, 116, 105, 99, 97, 108>>    \* "critical"
StrCvePrefix == <<67, 86, 69, 45>>    \* "CVE-"

SCAN_TIMEOUT == 120
DB_STATUS_TIMEOUT == 30
DB_UPDATE_TIMEOUT == 60
SNYK_VERSION_TIMEOUT == 10
SNYK_AUTH_TIMEOUT == 15
STDERR_TAIL == 2000

Json(obj) == [kind |-> "str", form |-> "json", obj |-> obj, indent |-> 0]
JsonIndent2(obj) == [kind |-> "str", form |-> "json", obj |-> obj, indent |-> 2]
\* json.dumps of an object one of whose messages interpolates caller text at {}
JsonWith(obj, interp) ==
    [kind |-> "str", form |-> "json", obj |-> obj, indent |-> 0, interp |-> interp]
Stdout(t) == [kind |-> "str", form |-> "stdout", text |-> t]

\* the timeout message reporting the default instead of the call's timeout
TimedOutMessage_Default(timeout) == "Scan timed out after " \o ToString(SCAN_TIMEOUT) \o "s"

\* the message of subprocess.TimeoutExpired's handler (grype 41, snyk 42)
TimedOutMessage(timeout) == "Scan timed out after " \o ToString(timeout) \o "s"

\* returncode in (0, 1)
ScannerExitOk(returncode) == returncode \in {0, 1}

\* _run_grype(args, timeout) when the external process behaves as `out`
run_grype(a, timeout, out) ==
    LET call == RunCall(<<StrGrype>> \o a, timeout)
        proc == RunOutcome(<<StrGrype>> \o a, out)
    IN
    IF proc.kind = "timeout" THEN
        [ret |-> Json([error |-> TimedOutMessage(timeout)]), spawned |-> <<call>>]
    ELSE IF proc.kind = "notfound" THEN
        [ret |-> Json([error |-> "grype binary not found"]), spawned |-> <<call>>]
    ELSE IF RunRaises(proc) # "" THEN
        [ret |-> Raise(RunRaises(proc)), spawned |-> <<call>>]
    ELSE IF ~ScannerExitOk(proc.returncode) THEN
        [ret |-> Json([error |-> "grype exited with code " \o ToString(proc.returncode),
                       stderr |-> LastChars(proc.stderr, STDERR_TAIL)]),
         spawned |-> <<call>>]
    ELSE IF NonEmpty(proc.stdout) THEN
        [ret |-> Stdout(proc.stdout), spawned |-> <<call>>]
    ELSE
        [ret |-> Json([message |-> "No output",
                       stderr |-> LastChars(proc.stderr, STDERR_TAIL)]),
         spawned |-> <<call>>]

\* a list of severities that also admits "extreme"
ValidSeverities_WithExtreme ==
    <<StrNegligible, StrLow, StrMedium, StrHigh, StrCritical,
      <<101, 120, 116, 114, 101, 109, 101>>>>

\* valid = ("negligible", "low", "medium", "high", "critical")
ValidSeverities == <<StrNegligible, StrLow, StrMedium, StrHigh, StrCritical>>

\* scan_image(image, severity)
scan_image(image, severity, out) ==
    LET base == <<Strip(image), StrDashO, StrJson>> IN
    IF Strip(severity) # <<>> THEN
        LET sev == Lower(Strip(severity)) IN
        IF sev \notin Range(ValidSeverities) THEN
            [ret |-> JsonWith([error |-> "Invalid severity. Must be one of: {}"],
                              Join(CommaSpace, ValidSeverities)),
             spawned |-> <<>>]
        ELSE run_grype(base \o <<StrFailOn, sev>>, SCAN_TIMEOUT, out)
    ELSE run_grype(base, SCAN_TIMEOUT, out)

scan_dir(path, out) ==
    run_grype(<<StrDirColon \o Strip(path), StrDashO, StrJson>>, SCAN_TIMEOUT, out)

scan_sbom(path, out) ==
    run_grype(<<StrSbomColon \o Strip(path), StrDashO, StrJson>>, SCAN_TIMEOUT, out)

db_status(out) == run_grype(<<StrDb, StrStatus, StrDashO, StrJson>>, DB_STATUS_TIMEOUT, out)

db_update(out) == run_grype(<<StrDb, StrUpdate, StrDashO, StrJson>>, DB_UPDATE_TIMEOUT, out)

\* _run_snyk(args, timeout) when the external process behaves as `out`
run_snyk(a, timeout, out) ==
    LET call == RunCall(<<StrSnyk>> \o a, timeout)
        proc == RunOutcome(<<StrSnyk>> \o a, out)
    IN
    IF proc.kind = "timeout" THEN
        [ret |-> Json([error |-> TimedOutMessage(timeout)]), spawned |-> <<call>>]
    ELSE IF proc.kind = "notfound" THEN
        [ret |-> Json([error |-> "snyk binary not found"]), spawned |-> <<call>>]
    ELSE IF RunRaises(proc) # "" THEN
        [ret |-> Raise(RunRaises(proc)), spawned |-> <<call>>]
    ELSE IF ScannerExitOk(proc.returncode) THEN
        IF NonEmpty(proc.stdout) THEN
            [ret |-> Stdout(proc.stdout), spawned |-> <<call>>]
        ELSE
            [ret |-> Json([message |-> "No output",
                           stderr |-> LastChars(proc.stderr, STDERR_TAIL)]),
             spawned |-> <<call>>]
    ELSE
        [ret |-> Json([error |-> "snyk exited with code " \o ToString(proc.returncode),
                       stderr |-> LastChars(proc.stderr, STDERR_TAIL),
                       stdout |-> LastChars(proc.stdout, STDERR_TAIL)]),
         spawned |-> <<call>>]

snyk_test(path, package_manager, out) ==
    LET base == <<StrTest, Strip(path), StrDashJson>> IN
    IF Strip(package_manager) # <<>>
    THEN run_snyk(base \o <<StrPackageManager, Strip(package_manager)>>, SCAN_TIMEOUT, out)
    ELSE run_snyk(base, SCAN_TIMEOUT, out)

snyk_code_test(path, out) ==
    run_snyk(<<StrCode, StrTest, Strip(path), StrDashJson>>, SCAN_TIMEOUT, out)

snyk_container_test(image, out) ==
    run_snyk(<<StrContainer, StrTest, Strip(image), StrDashJson>>, SCAN_TIMEOUT, out)

snyk_iac_test(path, out) ==
    run_snyk(<<StrIac, StrTest, Strip(path), StrDashJson>>, SCAN_TIMEOUT, out)

snyk_version(out) == run_snyk(<<StrVersion>>, SNYK_VERSION_TIMEOUT, out)

\* snyk_auth_status(); snyk_token is os.getenv("SNYK_TOKEN", "") at call time
snyk_auth_status(snyk_token, out) ==
    run_snyk(<<StrAuth, StrToken, snyk_token, StrDashJson>>, SNYK_AUTH_TIMEOUT, out)

(***************************************************************************)
(* nvd-mcp: input validation, NVD API client, tools                        *)
(***************************************************************************)

NVD_BASE_URL == "https://services.nvd.nist.gov/rest/json/cves/2.0"
REQUEST_TIMEOUT == 30
MAX_KEYWORD_LENGTH == 256
MAX_CVE_ID_LENGTH == 30
MAX_RESULTS == 50
BODY_HEAD == 500

\* CONTROL_CHAR_RE = [\x00-\x1f\x7f-\x9f]
IsControl(c) == c \in (0..31) \cup (127..159)

\* a substitution that knows only the C0 controls [\x00-\x1f]
RemoveControl_C0Only(s) == SelectSeq(s, LAMBDA c : c \notin 0..31)

\* CONTROL_CHAR_RE.sub("", s)
RemoveControl(s) == SelectSeq(s, LAMBDA c : ~IsControl(c))

\* a sanitizer that cuts the raw string to the maximum before cleaning it
sanitize_keyword_TruncateFirst(keyword) ==
    RemoveControl(Strip(Take(keyword, MAX_KEYWORD_LENGTH)))

\* _sanitize_keyword
sanitize_keyword(keyword) == Take(RemoveControl(Strip(keyword)), MAX_KEYWORD_LENGTH)

\* dict.get(key, default): an optional key is <<>> (absent) or <<value>>
DictGet(opt, default) == IF opt = <<>> THEN default ELSE opt[1]

\* a request that carries the apiKey header whether or not a key is configured
nvd_request_AlwaysKey(params, api_key) ==
    [url |-> NVD_BASE_URL,
     params |-> params,
     headers |-> [Accept |-> "application/json", apiKey |-> api_key],
     timeout |-> REQUEST_TIMEOUT]

\* the GET request _nvd_query issues for `params`
nvd_request(params, api_key) ==
    [url |-> NVD_BASE_URL,
     params |-> params,
     headers |-> IF api_key # <<>>
                 THEN [Accept |-> "application/json", apiKey |-> api_key]
                 ELSE [Accept |-> "application/json"],
     timeout |-> REQUEST_TIMEOUT]

\* json.dumps of None
JsonNull == "null"

\* "CWE-"
StrCwePrefix == <<67, 87, 69, 45>>

\* cve.get("references", [])[:10]
MAX_REFERENCES == 10

\* the cvss object of _format_cve: from the first entry of the first of
\* cvssMetricV31, cvssMetricV30, cvssMetricV2 that is a non-empty list, or {}
\* (written <<>>) when there is none. An optional key is <<>> or <<value>>; a
\* JSON number is carried as its JSON text.
CvssOf(metrics) ==
    LET metric_list ==
            IF metrics.cvssMetricV31 # <<>> THEN metrics.cvssMetricV31
            ELSE IF metrics.cvssMetricV30 # <<>> THEN metrics.cvssMetricV30
            ELSE metrics.cvssMetricV2
    IN IF metric_list = <<>> THEN <<>>
       ELSE LET first == metric_list[1]
                cvss_data == DictGet(first.cvssData,
                                     [version |-> <<>>, baseScore |-> <<>>,
                                      baseSeverity |-> <<>>, vectorString |-> <<>>])
            IN [version |-> DictGet(cvss_data.version, ""),
                baseScore |-> DictGet(cvss_data.baseScore, JsonNull),
                baseSeverity |-> DictGet(cvss_data.baseSeverity,
                                         DictGet(first.baseSeverity, "")),
                vectorString |-> DictGet(cvss_data.vectorString, "")]

\* the values of one weakness's descriptions that start with "CWE-"
CwesOfWeakness(w) ==
    LET values == [i \in 1..Len(w.description) |-> DictGet(w.description[i].value, <<>>)]
    IN SelectSeq(values, LAMBDA v : StartsWith(v, StrCwePrefix))

\* the cwes list of _format_cve: those values over all weaknesses, in order
RECURSIVE CwesOf(_)
CwesOf(weaknesses) ==
    IF weaknesses = <<>> THEN <<>>
    ELSE CwesOfWeakness(Head(weaknesses)) \o CwesOf(Tail(weaknesses))

\* the references list of _format_cve: url and source of the first ten
ReferencesOf(references) ==
    LET kept == Take(references, MAX_REFERENCES) IN
    [i \in 1..Len(kept) |-> [url |-> DictGet(kept[i].url, ""),
                             source |-> DictGet(kept[i].source, "")]]

\* _format_cve for the "cve" object of an upstream vulnerability (every key
\* optional): the description prefers English, then the first one
format_cve(vuln) ==
    LET descriptions == vuln.descriptions
        en == SelectSeq(descriptions, LAMBDA d : d.lang = "en")
    IN [id |-> DictGet(vuln.id, "unknown"),
        description |-> IF en # <<>> THEN en[1].value
                        ELSE IF descriptions # <<>> THEN descriptions[1].value
                        ELSE "No description",
        published |-> DictGet(vuln.published, ""),
        lastModified |-> DictGet(vuln.lastModified, ""),
        cvss |-> CvssOf(vuln.metrics),
        cwes |-> CwesOf(vuln.weaknesses),
        references |-> ReferencesOf(vuln.references)]

RateLimited ==
    Json([error |-> "Rate limited by NVD API. Set NVD_API_KEY for higher limits (50 req/30s)."])

HttpError(up) ==
    Json([error |-> "NVD API returned HTTP " \o ToString(up.status_code),
          body |-> FirstChars(up.text, BODY_HEAD)])

\* a status handling without the 403 branch
nvd_status_Generic403(up) ==
    IF up.kind # "response" THEN Raise(up.kind)
    ELSE IF up.status_code # 200 THEN HttpError(up)
    ELSE IF up.json = "invalid" THEN Raise("JSONDecodeError")
    ELSE IF up.json # "dict" THEN Raise("AttributeError")
    ELSE NoReturn

\* what both tools do with the upstream outcome before reading the body:
\* a return value, or [kind |-> "none"] when the body is to be parsed
nvd_status(up) ==
    IF up.kind # "response" THEN Raise(up.kind)
    ELSE IF up.status_code = 403 THEN RateLimited
    ELSE IF up.status_code # 200 THEN HttpError(up)
    ELSE IF up.json = "invalid" THEN Raise("JSONDecodeError")
    ELSE IF up.json # "dict" THEN Raise("AttributeError")
    ELSE NoReturn

\* a normalisation that leaves the case of the identifier alone
normalize_cve_id_KeepCase(cve_id) == RemoveControl(Strip(cve_id))

\* the normalisation of get_cve (server.py:159)
normalize_cve_id(cve_id) == Upper(RemoveControl(Strip(cve_id)))

\* get_cve(cve_id) up to `await _nvd_query`: the early return of the
\* validation, or the request that goes out
get_cve_send(cve_id, api_key) ==
    LET id == normalize_cve_id(cve_id) IN
    IF Len(id) > MAX_CVE_ID_LENGTH THEN
        [ret |-> Json([error |-> "CVE ID too long"]), sent |-> <<>>]
    ELSE IF ~StartsWith(id, StrCvePrefix) THEN
        [ret |-> Json([error |-> "Invalid CVE ID format. Expected CVE-YYYY-NNNNN"]),
         sent |-> <<>>]
    ELSE
        [ret |-> NoReturn, sent |-> <<nvd_request([cveId |-> id], api_key)>>]

\* get_cve from the point where the upstream API has behaved as `up`; the
\* local cve_id holds the normalised identifier by then (server.py:159 rebinds it)
get_cve_resume(cve_id, up) ==
    LET early == nvd_status(up) IN
    IF early.kind # "none" THEN early
    ELSE LET vulns == DictGet(up.vulnerabilities, <<>>) IN
         IF vulns = <<>> THEN JsonWith([error |-> "CVE {} not found"], cve_id)
         ELSE JsonIndent2(format_cve(vulns[1]))

\* get_cve(cve_id) as a whole, when the upstream API behaves as `up`
get_cve(cve_id, api_key, up) ==
    LET first == get_cve_send(cve_id, api_key) IN
    IF first.sent = <<>> THEN first
    ELSE [ret |-> get_cve_resume(normalize_cve_id(cve_id), up), sent |-> first.sent]

\* a clamp with the upper limit only
clamp_results_MinOnly(results) == Min(results, MAX_RESULTS)

\* results = max(1, min(results, 50))
clamp_results(results) == Max(1, Min(results, MAX_RESULTS))

\* search_cves(keyword, results) up to `await _nvd_query`: the early return
\* for an empty keyword, or the request that goes out
search_cves_send(keyword, results, api_key) ==
    LET kw == sanitize_keyword(keyword) IN
    IF kw = <<>> THEN
        [ret |-> Json([error |-> "Keyword must not be empty after sanitization"]),
         sent |-> <<>>]
    ELSE
        [ret |-> NoReturn,
         sent |-> <<nvd_request([keywordSearch |-> kw,
                                 resultsPerPage |-> clamp_results(results)], api_key)>>]

\* search_cves from the point where the upstream API has behaved as `up`
search_cves_resume(up) ==
    LET early == nvd_status(up) IN
    IF early.kind # "none" THEN early
    ELSE LET total == DictGet(up.totalResults, 0)
             vulns == DictGet(up.vulnerabilities, <<>>)
         IN JsonIndent2([totalResults |-> total,
                         returned |-> Len(vulns),
                         vulnerabilities |->
                             [i \in 1..Len(vulns) |-> format_cve(vulns[i])]])

\* search_cves(keyword, results) as a whole, when the upstream API behaves as `up`
search_cves(keyword, results, api_key, up) ==
    LET first == search_cves_send(keyword, results, api_key) IN
    IF first.sent = <<>> THEN first
    ELSE [ret |-> search_cves_resume(up), sent |-> first.sent]

(***************************************************************************)
(* Inputs                                                                  *)
(***************************************************************************)

MaxTokLen == 1     \* longest bearer token a request presents
MaxCmdLen == 3     \* longest command line drawn from CmdAlphabet
MaxOutLen == 6001  \* longest captured stdout
MaxErrLen == 2001  \* longest captured stderr
MaxExit == 2       \* largest exit code of an external process
MaxBodyLen == 501  \* longest upstream response body
MaxInFlight == 2   \* most nvd requests in progress at once

\* all strings over alphabet A of length at most n
Strs(A, n) == UNION {[1..k -> A] : k \in 0..n}

\* c repeated n times
Rep(c, n) == [i \in 1..n |-> c]

\* "s" and e-acute (not ASCII)
TokAlphabet == {115, 233}

\* "Bearer ", "bearer ", "Bearer" and no scheme at all
HeaderPrefixes ==
    {BearerPrefix, <<98, 101, 97, 114, 101, 114, 32>>, <<66, 101, 97, 114, 101, 114>>, <<>>}

\* request.headers: <<>> when Authorization is absent, <<value>> otherwise
Headers == {<<>>} \cup {<<p \o t>> : p \in HeaderPrefixes, t \in Strs(TokAlphabet, MaxTokLen)}

\* the servers without middleware never read the header
PlainHeaders == {<<>>, <<BearerPrefix \o <<115>>>>}

\* ALLOWED_COMMANDS in the environment is <<>> when unset, <<value>> otherwise:
\* unset, "all", " ALL ,a", "a, a", "ball,a" and "".
\* Each server is its own process and reads only its own variables, so the
\* deployments cover every value of each variable without their product.
Deployments ==
    {[token |-> <<>>,    allowed |-> <<>>,                            api_key |-> <<>>],
     [token |-> <<115>>, allowed |-> <<>>,                            api_key |-> <<107>>],
     [token |-> <<233>>, allowed |-> <<AllSentinel>>,                 api_key |-> <<>>],
     [token |-> <<115>>, allowed |-> <<<<32, 65, 76, 76, 32, 44, 97>>>>, api_key |-> <<>>],
     [token |-> <<>>,    allowed |-> <<<<97, 44, 32, 97>>>>,          api_key |-> <<107>>],
     [token |-> <<115>>, allowed |-> <<<<98, 97, 108, 108, 44, 97>>>>, api_key |-> <<>>],
     [token |-> <<233>>, allowed |-> <<<<>>>>,                        api_key |-> <<107>>]}

\* a, space, single quote, double quote, backslash
CmdAlphabet == {97, 32, 39, 34, 92}

\* "whoami", "rm -rf /", "id -u", " whoami", "/bin/whoami", "WHOAMI", "all",
\* "a" NUL "b", "a " NUL
NamedCmds ==
    {StrWhoami, StrRmRf, <<105, 100, 32, 45, 117>>, <<32>> \o StrWhoami,
     <<47, 98, 105, 110, 47>> \o StrWhoami, <<87, 72, 79, 65, 77, 73>>, AllSentinel,
     <<97, 0, 98>>, <<97, 32, 0>>}

TimeoutSecs == {-5, 0, 1, 10, 30, 31}

\* run_allowed(cmd, timeout_sec=10)
KaliInputs ==
    {[cmd |-> c, timeout_sec |-> 10] : c \in Strs(CmdAlphabet, MaxCmdLen)}
    \cup {[cmd |-> c, timeout_sec |-> t] : c \in NamedCmds, t \in TimeoutSecs}

ExitCodes == -1..MaxExit

\* what subprocess.run can do: the process exits, outlives the timeout, cannot
\* be started (no such file, not executable, not in an executable format), or
\* exits after writing output that is not UTF-8
ProcOutcomes ==
    {[kind |-> "exit", returncode |-> rc, stdout |-> Text(o), stderr |-> Text(e)] :
        rc \in ExitCodes, o \in {0, MaxOutLen}, e \in {0, MaxErrLen}}
    \cup {[kind |-> "undecodable", returncode |-> rc] : rc \in ExitCodes}
    \cup {[kind |-> "timeout"], [kind |-> "notfound"], [kind |-> "permission"],
          [kind |-> "execformat"]}

\* "nginx", " nginx ", "", "a" NUL "b"
Targets ==
    {<<110, 103, 105, 110, 120>>, <<32, 110, 103, 105, 110, 120, 32>>, <<>>, <<97, 0, 98>>}

\* "", " ", "high", "HIGH", " Low ", "extreme"
Severities ==
    {<<>>, <<32>>, StrHigh, <<72, 73, 71, 72>>, <<32, 76, 111, 119, 32>>,
     <<101, 120, 116, 114, 101, 109, 101>>}

\* "", " ", "npm"
PackageManagers == {<<>>, <<32>>, <<110, 112, 109>>}

\* SNYK_TOKEN in the environment at call time: unset or "t"
SnykTokens == {<<>>, <<116>>}

\* "CVE-1", " cve-1 ", "cve-1" with a NUL inside, "x", "", "cve-" and sharp s,
\* "CVE-" followed by 26 and by 27 digits, "CVE-1 " followed by NUL
CveIds ==
    {StrCvePrefix \o <<49>>, <<32, 99, 118, 101, 45, 49, 32>>, <<99, 118, 0, 101, 45, 49>>,
     <<120>>, <<>>, <<99, 118, 101, 45, 223>>,
     StrCvePrefix \o Rep(49, MAX_CVE_ID_LENGTH - 4),
     StrCvePrefix \o Rep(49, MAX_CVE_ID_LENGTH - 3),
     StrCvePrefix \o <<49, 32, 0>>}

\* "a", " a ", NUL, "", "a" NUL "b", 257 times "a";
\* NUL DEL, NUL " a", 257 spaces, 255 times "a" then " b",
\* 255 times "a" then two NULs, NUL then 257 times "a"
Keywords ==
    {<<97>>, <<32, 97, 32>>, <<0>>, <<>>, <<97, 0, 98>>, Rep(97, MAX_KEYWORD_LENGTH + 1),
     <<0, 127>>, <<0, 32, 97>>, Rep(32, MAX_KEYWORD_LENGTH + 1),
     Rep(97, MAX_KEYWORD_LENGTH - 1) \o <<32, 98>>,
     Rep(97, MAX_KEYWORD_LENGTH - 1) \o <<0, 0>>,
     <<0>> \o Rep(97, MAX_KEYWORD_LENGTH + 1)}

ResultCounts == {-1, 0, 1, 10, 50, 51, 100}

\* search_cves(keyword, results=10)
SearchInputs ==
    {[keyword |-> k, results |-> 10] : k \in Keywords}
    \cup {[keyword |-> <<97>>, results |-> n] : n \in ResultCounts}

\* an upstream object without metrics
NoMetrics == [cvssMetricV31 |-> <<>>, cvssMetricV30 |-> <<>>, cvssMetricV2 |-> <<>>]

\* an upstream cvssData object with every key
CvssData(version, score, severity, vector) ==
    [version |-> <<version>>, baseScore |-> <<score>>, baseSeverity |-> <<severity>>,
     vectorString |-> <<vector>>]

\* a description in Spanish and one in English, nothing else but the dates
Vuln1 ==
    [id |-> <<"CVE-2024-1234">>,
     descriptions |-> <<[lang |-> "es", value |-> "desbordamiento"],
                        [lang |-> "en", value |-> "overflow"]>>,
     published |-> <<"2024-01-01T00:00:00.000">>,
     lastModified |-> <<>>,
     metrics |-> NoMetrics, weaknesses |-> <<>>, references |-> <<>>]

\* an object without any key
Vuln2 ==
    [id |-> <<>>, descriptions |-> <<>>, published |-> <<>>, lastModified |-> <<>>,
     metrics |-> NoMetrics, weaknesses |-> <<>>, references |-> <<>>]

\* a full object: CVSS 3.1 and 2.0 metrics, weaknesses "CWE-79",
\* "NVD-CWE-Other", one without value, one without descriptions and "CWE-89",
\* and twelve references, the first with a source
Vuln3 ==
    [id |-> <<"CVE-2024-1234">>,
     descriptions |-> <<[lang |-> "en", value |-> "Test vuln"]>>,
     published |-> <<"2024-01-15T00:00:00.000">>,
     lastModified |-> <<"2024-01-20T00:00:00.000">>,
     metrics |->
         [cvssMetricV31 |->
              <<[cvssData |-> <<CvssData("3.1", "9.8", "CRITICAL",
                                         "CVSS:3.1/AV:N/AC:L/PR:N/UI:N/S:U/C:H/I:H/A:H")>>,
                 baseSeverity |-> <<>>]>>,
          cvssMetricV30 |-> <<>>,
          cvssMetricV2 |->
              <<[cvssData |-> <<CvssData("2.0", "7.5", "HIGH", "AV:N/AC:L/Au:N/C:P/I:P/A:P")>>,
                 baseSeverity |-> <<"HIGH">>]>>],
     weaknesses |->
         <<[description |-> <<[value |-> <<<<67, 87, 69, 45, 55, 57>>>>],
                              [value |-> <<<<78, 86, 68, 45, 67, 87, 69, 45, 79>>>>],
                              [value |-> <<>>]>>],
           [description |-> <<>>],
           [description |-> <<[value |-> <<<<67, 87, 69, 45, 56, 57>>>>]>>]>>,
     references |->
         [i \in 1..12 |-> [url |-> <<"https://example.com/" \o ToString(i)>>,
                           source |-> IF i = 1 THEN <<"vendor">> ELSE <<>>]]]

\* CVSS 2.0 only, with the severity beside cvssData and no vector; a reference
\* without url
Vuln4 ==
    [id |-> <<"CVE-2010-0001">>,
     descriptions |-> <<>>,
     published |-> <<>>,
     lastModified |-> <<>>,
     metrics |->
         [cvssMetricV31 |-> <<>>,
          cvssMetricV30 |-> <<>>,
          cvssMetricV2 |->
              <<[cvssData |-> <<[version |-> <<"2.0">>, baseScore |-> <<"7.5">>,
                                 baseSeverity |-> <<>>, vectorString |-> <<>>]>>,
                 baseSeverity |-> <<"HIGH">>]>>],
     weaknesses |-> <<>>,
     references |-> <<[url |-> <<>>, source |-> <<"nvd">>]>>]

\* a CVSS 3.0 entry without cvssData, ahead of a CVSS 2.0 entry
Vuln5 ==
    [id |-> <<"CVE-2017-0002">>,
     descriptions |-> <<[lang |-> "es", value |-> "desbordamiento"]>>,
     published |-> <<>>,
     lastModified |-> <<"2017-02-02T00:00:00.000">>,
     metrics |->
         [cvssMetricV31 |-> <<>>,
          cvssMetricV30 |-> <<[cvssData |-> <<>>, baseSeverity |-> <<>>]>>,
          cvssMetricV2 |->
              <<[cvssData |-> <<CvssData("2.0", "5.0", "MEDIUM", "AV:N")>>,
                 baseSeverity |-> <<>>]>>],
     weaknesses |-> <<>>,
     references |-> <<>>]

Response(status, n, json, vulns, total) ==
    [kind |-> "response", status_code |-> status, text |-> Text(n), json |-> json,
     vulnerabilities |-> vulns, totalResults |-> total]

\* what the GET can do: an httpx exception, a non-200 answer, or a 200 answer
\* whose body is not JSON, is a JSON array, or is a JSON object
Upstream ==
    {[kind |-> "TimeoutException"], [kind |-> "ConnectError"]}
    \cup {Response(st, n, "invalid", <<>>, <<>>) : st \in {204, 403, 404, 500}, n \in {0, MaxBodyLen}}
    \cup {Response(200, MaxBodyLen, j, <<>>, <<>>) : j \in {"invalid", "list", "dict"}}
    \cup {Response(200, MaxBodyLen, "dict", <<v>>, t) :
            v \in {<<>>, <<Vuln1>>, <<Vuln2, Vuln1>>, <<Vuln3>>, <<Vuln5, Vuln4>>},
            t \in {<<>>, <<2>>}}

(***************************************************************************)
(* The servers                                                             *)
(***************************************************************************)

\* the four programs
Programs == {"nvd", "kali", "grype", "snyk"}

Init ==
    /\ \E d \in Deployments :
        /\ MCP_AUTH_TOKEN = d.token
        /\ ALLOWED_COMMANDS = AllowedCommandsOf(DictGet(d.allowed, DefaultAllowedEnv))
        /\ ALLOW_ALL_COMMANDS =
               AllowAllOf(AllowedCommandsOf(DictGet(d.allowed, DefaultAllowedEnv)))
        /\ NVD_API_KEY = d.api_key
    /\ program \in Programs
    /\ pending = EmptyBag
    /\ server = "none"
    /\ tool = "none"
    /\ header = <<>>
    /\ args = <<>>
    /\ gate = NoGate
    /\ ran = FALSE
    /\ spawned = <<>>
    /\ sent = <<>>
    /\ ext = NoProc
    /\ ret = NoReturn

\* The event loop runs one step at a time, and the record of a step is dropped
\* before the next one starts (the servers are stateless_http and keep no
\* mutable globals): Idle is the loop between two steps.
Idle == server = "none"

\* a request to a server started with mcp.run(transport="streamable-http"):
\* the tool function runs to its end, result r
Plain(srv, t, h, a, out, r) ==
    /\ server' = srv
    /\ tool' = t
    /\ header' = h
    /\ args' = a
    /\ gate' = NoGate
    /\ ran' = TRUE
    /\ spawned' = r.spawned
    /\ sent' = <<>>
    /\ ext' = IF r.spawned # <<>> THEN RunOutcome(r.spawned[1].argv, out) ELSE NoProc
    /\ ret' = r.ret
    /\ UNCHANGED <<config, pending>>

\* the record of an nvd request the gate has let through and whose body has
\* not been read yet: dispatch waits in `await call_next(request)`
Admitted(g) == [phase |-> "call_next", gate |-> g]

\* the record of an nvd request that waits for the answer to its GET: what its
\* suspended coroutine still holds. The raw arguments are gone by then, the
\* locals cve_id and keyword were rebound to the values that are in the request.
InFlight(t, g, r) == [phase |-> "get", tool |-> t, gate |-> g, sent |-> r.sent]

\* the requests of `pending` that are in the given phase
InPhase(phase) == {r \in BagToSet(pending) : r.phase = phase}

\* a request arrives at the nvd server: BearerTokenMiddleware.dispatch reads
\* the Authorization header and answers 401 or 403, raises, or goes on to
\* `await call_next(request)`. The middleware reads nothing but the header: the
\* body, with the tool's name and arguments, is read behind call_next.
NvdDispatch ==
    /\ Idle
    /\ program = "nvd"
    /\ BagCardinality(pending) < MaxInFlight
    /\ \E h \in Headers :
        LET g == dispatch(MCP_AUTH_TOKEN, h) IN
        /\ server' = "nvd"
        /\ tool' = "none"
        /\ header' = h
        /\ args' = <<>>
        /\ gate' = g
        /\ ran' = FALSE
        /\ spawned' = <<>>
        /\ sent' = <<>>
        /\ ext' = NoProc
        /\ ret' = NoReturn
        /\ pending' = IF g.call_next > 0 THEN pending (+) SetToBag({Admitted(g)})
                      ELSE pending
        /\ UNCHANGED config

\* behind call_next the tool coroutine t of an admitted request runs on the
\* arguments a up to its await, result r: it has returned early, or its GET is
\* out and the request waits for the answer
Gated(t, a, r) ==
    \E q \in InPhase("call_next") :
        /\ server' = "nvd"
        /\ tool' = t
        /\ header' = <<>>
        /\ args' = a
        /\ gate' = q.gate
        /\ ran' = TRUE
        /\ spawned' = <<>>
        /\ sent' = r.sent
        /\ ext' = NoProc
        /\ ret' = r.ret
        /\ pending' = IF r.sent # <<>>
                      THEN (pending (-) SetToBag({q})) (+) SetToBag({InFlight(t, q.gate, r)})
                      ELSE pending (-) SetToBag({q})
        /\ UNCHANGED config

NvdGetCve ==
    /\ Idle
    /\ \E id \in CveIds :
           Gated("get_cve", [cve_id |-> id], get_cve_send(id, NVD_API_KEY))

NvdSearchCves ==
    /\ Idle
    /\ \E a \in SearchInputs :
           Gated("search_cves", a, search_cves_send(a.keyword, a.results, NVD_API_KEY))

\* the GET of a waiting request is answered (or fails) and its coroutine runs
\* to its end; the Authorization header and the raw arguments are not read
\* again
NvdQueryReturns ==
    /\ Idle
    /\ \E r \in InPhase("get"), up \in Upstream :
        /\ server' = "nvd"
        /\ tool' = r.tool
        /\ header' = <<>>
        /\ args' = <<>>
        /\ gate' = r.gate
        /\ ran' = TRUE
        /\ spawned' = <<>>
        /\ sent' = r.sent
        /\ ext' = up
        /\ ret' = IF r.tool = "get_cve" THEN get_cve_resume(r.sent[1].params.cveId, up)
                  ELSE search_cves_resume(up)
        /\ pending' = pending (-) SetToBag({r})
        /\ UNCHANGED config

KaliRunAllowed ==
    /\ Idle
    /\ program = "kali"
    /\ \E h \in PlainHeaders, a \in KaliInputs, out \in ProcOutcomes :
           Plain("kali", "run_allowed", h, a, out,
                 run_allowed(a.cmd, a.timeout_sec, ALLOW_ALL_COMMANDS, ALLOWED_COMMANDS, out))

GrypeScanImage ==
    /\ Idle
    /\ program = "grype"
    /\ \E h \in PlainHeaders, i \in Targets, sv \in Severities, out \in ProcOutcomes :
           Plain("grype", "scan_image", h, [image |-> i, severity |-> sv], out,
                 scan_image(i, sv, out))

GrypeScanDir ==
    /\ Idle
    /\ program = "grype"
    /\ \E h \in PlainHeaders, p \in Targets, out \in ProcOutcomes :
           Plain("grype", "scan_dir", h, [path |-> p], out, scan_dir(p, out))

GrypeScanSbom ==
    /\ Idle
    /\ program = "grype"
    /\ \E h \in PlainHeaders, p \in Targets, out \in ProcOutcomes :
           Plain("grype", "scan_sbom", h, [path |-> p], out, scan_sbom(p, out))

GrypeDbStatus ==
    /\ Idle
    /\ program = "grype"
    /\ \E h \in PlainHeaders, out \in ProcOutcomes :
           Plain("grype", "db_status", h, <<>>, out, db_status(out))

GrypeDbUpdate ==
    /\ Idle
    /\ program = "grype"
    /\ \E h \in PlainHeaders, out \in ProcOutcomes :
           Plain("grype", "db_update", h, <<>>, out, db_update(out))

SnykTest ==
    /\ Idle
    /\ program = "snyk"
    /\ \E h \in PlainHeaders, p \in Targets, pm \in PackageManagers, out \in ProcOutcomes :
           Plain("snyk", "snyk_test", h, [path |-> p, package_manager |-> pm], out,
                 snyk_test(p, pm, out))

SnykCodeTest ==
    /\ Idle
    /\ program = "snyk"
    /\ \E h \in PlainHeaders, p \in Targets, out \in ProcOutcomes :
           Plain("snyk", "snyk_code_test", h, [path |-> p], out, snyk_code_test(p, out))

SnykContainerTest ==
    /\ Idle
    /\ program = "snyk"
    /\ \E h \in PlainHeaders, i \in Targets, out \in ProcOutcomes :
           Plain("snyk", "snyk_container_test", h, [image |-> i], out,
                 snyk_container_test(i, out))

SnykIacTest ==
    /\ Idle
    /\ program = "snyk"
    /\ \E h \in PlainHeaders, p \in Targets, out \in ProcOutcomes :
           Plain("snyk", "snyk_iac_test", h, [path |-> p], out, snyk_iac_test(p, out))

SnykVersion ==
    /\ Idle
    /\ program = "snyk"
    /\ \E h \in PlainHeaders, out \in ProcOutcomes :
           Plain("snyk", "snyk_version", h, <<>>, out, snyk_version(out))

SnykAuthStatus ==
    /\ Idle
    /\ program = "snyk"
    /\ \E h \in PlainHeaders, tk \in SnykTokens, out \in ProcOutcomes :
           Plain("snyk", "snyk_auth_status", h, [SNYK_TOKEN |-> tk], out,
                 snyk_auth_status(tk, out))

\* control is back with the event loop: the response of a finished request is
\* out, a request that waits for its GET stays in `pending`
Yield ==
    /\ ~Idle
    /\ server' = "none"
    /\ tool' = "none"
    /\ header' = <<>>
    /\ args' = <<>>
    /\ gate' = NoGate
    /\ ran' = FALSE
    /\ spawned' = <<>>
    /\ sent' = <<>>
    /\ ext' = NoProc
    /\ ret' = NoReturn
    /\ UNCHANGED <<config, pending>>

Next ==
    \/ Yield
    \/ NvdDispatch
    \/ NvdGetCve
    \/ NvdSearchCves
    \/ NvdQueryReturns
    \/ KaliRunAllowed
    \/ GrypeScanImage
    \/ GrypeScanDir
    \/ GrypeScanSbom
    \/ GrypeDbStatus
    \/ GrypeDbUpdate
    \/ SnykTest
    \/ SnykCodeTest
    \/ SnykContainerTest
    \/ SnykIacTest
    \/ SnykVersion
    \/ SnykAuthStatus

Spec == Init /\ [][Next]_vars

(***************************************************************************)
(* Properties                                                              *)
(***************************************************************************)

Returned == ret.kind = "str"
ReturnedJson == Returned /\ ret.form = "json"
ReturnedError == ReturnedJson /\ "error" \in DOMAIN ret.obj
Scanner == server \in {"grype", "snyk"}

\* the step on record is the arrival of a request at the nvd middleware
Arrived == server = "nvd" /\ tool = "none"

\* the step on record is the start of tool t behind the gate: the tool ran on
\* the caller's arguments up to its return or its await
Entered(t) == server = "nvd" /\ tool = t /\ ext = NoProc

\* C1: in the nvd server, dispatch hands the request to call_next (once, and
\* returns its response) exactly when the secret is empty or the Authorization
\* header is "Bearer " followed by the secret; otherwise call_next is never
\* invoked and no tool logic runs.
C1_DispatchIffAuthorized ==
    /\ Arrived =>
           /\ (gate.result = "pass" /\ gate.call_next = 1 /\ Admitted(gate) \in InPhase("call_next"))
                 <=> (MCP_AUTH_TOKEN = <<>> \/ header = <<BearerPrefix \o MCP_AUTH_TOKEN>>)
           /\ gate.result # "pass" => gate.call_next = 0
    /\ (server = "nvd" /\ ran) => (gate.result = "pass" /\ gate.call_next = 1)

\* C2: with a non-empty secret configured, no tool of any server runs for a
\* request that has not passed the bearer gate.
C2_NoToolWithoutGate ==
    (MCP_AUTH_TOKEN # <<>> /\ ran) => gate.result = "pass"

\* C3: without allow-all, run_allowed starts a process iff the tokenized command
\* is non-empty and its first token is a member of ALLOWED_COMMANDS; the empty
\* token list returns "Empty command." and a non-member a "Blocked" message,
\* neither starting a process; by default "whoami" runs and "rm -rf /" is blocked.
C3_AllowlistGuard ==
    (server = "kali" /\ ~ALLOW_ALL_COMMANDS) =>
        LET sp == shlex_split(args.cmd)
            member == sp.ok /\ sp.parts # <<>> /\ sp.parts[1] \in ALLOWED_COMMANDS
        IN /\ (spawned # <<>>) <=> member
           /\ member => (Len(spawned) = 1 /\ spawned[1].argv = sp.parts)
           /\ (sp.ok /\ sp.parts = <<>>) => (Returned /\ ret.text = "Empty command.")
           /\ (sp.ok /\ sp.parts # <<>> /\ ~member) =>
                  (Returned /\ ret.text = "Blocked. Allowed commands: {}")
           /\ ALLOWED_COMMANDS = AllowedCommandsOf(DefaultAllowedEnv) =>
                  /\ args.cmd = StrWhoami => spawned # <<>>
                  /\ args.cmd = StrRmRf =>
                         (spawned = <<>> /\ ret.text = "Blocked. Allowed commands: {}")

\* C3 witness: under the default allowlist "whoami" was run and nothing blocked it
C3_Witness ==
    /\ server = "kali"
    /\ ~ALLOW_ALL_COMMANDS
    /\ args.cmd = StrWhoami
    /\ spawned = <<RunCall(<<StrWhoami>>, 10)>>

\* C4: every error met during a tool call is caught by the tool and turned into
\* a returned response; no tool raises.
C4_NoRawException ==
    ran => ret.kind # "raise"

\* the external process ran to its end and left an exit code, whether or not
\* what it wrote could be decoded
Exited == ext.kind \in {"exit", "undecodable"}

\* the outcomes the spec calls failures: nothing was invoked (validation
\* failure, blocked or empty command), or the external call did not succeed
CallFailed ==
    \/ spawned = <<>> /\ sent = <<>>
    \/ ext.kind \in {"timeout", "notfound"}
    \/ Exited /\ Scanner /\ ext.returncode \notin {0, 1}
    \/ ext.kind = "response" /\ ext.status_code # 200

\* C5: every tool call that passes the gate and returns (a call that raises is
\* the subject of C4) returns one JSON-object-shaped string (a json.dumps of an
\* object, or the scanner's own JSON output), and on a failure the object has an
\* "error" key.
C5_AlwaysJsonObject ==
    (ran /\ Returned) =>
        /\ ret.form \in {"json", "stdout"}
        /\ CallFailed => ReturnedError

\* C6: with a secret configured, a request the gate does not let through gets
\* 401 when the header is absent or does not start with "Bearer ", and 403 when
\* it is "Bearer <token>" with a token other than the secret; never a 2xx.
C6_RejectClassification ==
    (server = "nvd" /\ MCP_AUTH_TOKEN # <<>> /\ gate.call_next = 0) =>
        LET auth_header == HeadersGet(header, <<>>) IN
        /\ ~StartsWith(auth_header, BearerPrefix) =>
               (gate.result = "reject" /\ gate.status_code = 401)
        /\ (StartsWith(auth_header, BearerPrefix)
              /\ Drop(auth_header, Len(BearerPrefix)) # MCP_AUTH_TOKEN) =>
               (gate.result = "reject" /\ gate.status_code = 403)
        /\ gate.status_code \notin 200..299

\* an entry of the configured set that is the allow-all sentinel
IsSentinel(c) == Lower(Strip(c)) = AllSentinel

\* C7: if the configured set holds "all" in any letter case, possibly with
\* surrounding whitespace, run_allowed executes every command whose token list
\* is non-empty, whatever its first token; the empty command is still rejected.
C7_AllowAll ==
    (server = "kali" /\ \E c \in ALLOWED_COMMANDS : IsSentinel(c)) =>
        LET sp == shlex_split(args.cmd) IN
        /\ (sp.ok /\ sp.parts # <<>>) =>
               (Len(spawned) = 1 /\ spawned[1].argv = sp.parts)
        /\ (sp.ok /\ sp.parts = <<>>) =>
               (spawned = <<>> /\ Returned /\ ret.text = "Empty command.")

\* C7 witness: the set holds " ALL " and a command outside the set was run
C7_Witness ==
    /\ server = "kali"
    /\ <<32, 65, 76, 76, 32>> \in ALLOWED_COMMANDS
    /\ args.cmd = StrWhoami
    /\ StrWhoami \notin ALLOWED_COMMANDS
    /\ spawned = <<RunCall(<<StrWhoami>>, 10)>>

\* t is exactly the last n characters of the captured text s (all of it if shorter)
IsTailOf(t, s, n) ==
    /\ t.hi = s.hi
    /\ t.lo >= s.lo
    /\ t.hi - t.lo <= n
    /\ (t.lo = s.lo \/ t.hi - t.lo = n)

ExitedMessage(name, returncode) == name \o " exited with code " \o ToString(returncode)

\* C8: a grype or snyk call returns the process's stdout as payload only for exit
\* code 0 or 1; any other exit code gives an error object naming the code, with a
\* tail of stderr of at most 2000 characters; an nvd lookup returns a formatted
\* result only for HTTP status 200.
C8_SuccessOnlyIfAccepted ==
    /\ (Scanner /\ Returned /\ ret.form = "stdout") =>
           (ext.kind = "exit" /\ ext.returncode \in {0, 1} /\ ret.text = ext.stdout)
    /\ (Scanner /\ Exited /\ ext.returncode \notin {0, 1}) =>
           /\ ReturnedError
           /\ ret.obj.error = ExitedMessage(server, ext.returncode)
           /\ IsTailOf(ret.obj.stderr, ext.stderr, 2000)
    /\ (server = "nvd" /\ ran /\ Returned /\ ~ReturnedError) =>
           (ext.kind = "response" /\ ext.status_code = 200)

\* the timeout each scanner tool passes to its runner
CallSiteTimeout ==
    CASE tool = "db_status" -> 30
      [] tool = "db_update" -> 60
      [] tool = "snyk_version" -> 10
      [] tool = "snyk_auth_status" -> 15
      [] OTHER -> 120

\* C9: when the external process of a scanner tool outlives the call's timeout
\* (120s scans, 30s db_status, 60s db_update, 10s snyk_version, 15s
\* snyk_auth_status), the tool returns an error object whose message gives that
\* duration, never a success payload.
C9_TimeoutReported ==
    (Scanner /\ ext.kind = "timeout") =>
        /\ spawned[1].timeout = CallSiteTimeout
        /\ ReturnedError
        /\ ret.obj.error = "Scan timed out after " \o ToString(CallSiteTimeout) \o "s"

\* C9 witness: db_status timed out and reported 30s
C9_Witness ==
    /\ tool = "db_status"
    /\ ext.kind = "timeout"
    /\ ReturnedError
    /\ ret.obj.error = "Scan timed out after 30s"

\* C10: a process invocation whose executable does not exist yields an error
\* object with a fixed "binary not found" message, never a raw exception.
C10_NotFoundReported ==
    ext.kind = "notfound" =>
        /\ ReturnedError
        /\ ret.obj.error \in {"grype binary not found", "snyk binary not found",
                              "binary not found"}

(***************************************************************************)
(* nvd-mcp input sanitization and upstream requests                        *)
(***************************************************************************)

\* what a sanitized field is promised to be: free of control characters, at
\* most max_len long, and without whitespace at either end
Clean(s, max_len) ==
    /\ \A i \in 1..Len(s) : ~IsControl(s[i])
    /\ Len(s) <= max_len
    /\ Strip(s) = s

\* C11: every sanitized field (the keyword _sanitize_keyword returns, the
\* identifier get_cve sends as cveId) contains no character in U+0000-U+001F
\* or U+007F-U+009F, is at most as long as its field allows (256, 30), and has
\* no leading or trailing whitespace, whatever the raw input was.
C11_SanitizedFieldsClean ==
    /\ Entered("search_cves") =>
           Clean(sanitize_keyword(args.keyword), MAX_KEYWORD_LENGTH)
    /\ (tool = "get_cve" /\ sent # <<>>) =>
           Clean(sent[1].params.cveId, MAX_CVE_ID_LENGTH)

\* C12 as stated: for every raw keyword longer than 256 characters,
\* _sanitize_keyword returns a string of exactly 256 characters.
C12_LongRawGivesMaxLen ==
    (Entered("search_cves") /\ Len(args.keyword) > MAX_KEYWORD_LENGTH) =>
        Len(sanitize_keyword(args.keyword)) = MAX_KEYWORD_LENGTH

\* C12 amended: the truncation applies to the string left after stripping and
\* control-character removal. When that string is longer than 256 characters
\* the sanitized keyword is its first 256 characters (length exactly 256, and
\* it is what search_cves sends); when it is not, the sanitized keyword is that
\* string whole, however long the raw input was.
C12_TruncatesCleanedKeyword ==
    Entered("search_cves") =>
        LET cleaned == RemoveControl(Strip(args.keyword)) IN
        /\ Len(cleaned) > MAX_KEYWORD_LENGTH =>
               /\ sent # <<>>
               /\ Len(sent[1].params.keywordSearch) = MAX_KEYWORD_LENGTH
               /\ sent[1].params.keywordSearch = Take(cleaned, MAX_KEYWORD_LENGTH)
        /\ Len(cleaned) <= MAX_KEYWORD_LENGTH =>
               sanitize_keyword(args.keyword) = cleaned

\* C12 witness: a raw keyword of 258 characters that starts with NUL was cut
\* to 256 characters after the NUL was removed
C12_Witness ==
    /\ Entered("search_cves")
    /\ Len(args.keyword) = MAX_KEYWORD_LENGTH + 2
    /\ args.keyword[1] = 0
    /\ sent # <<>>
    /\ sent[1].params.keywordSearch = Rep(97, MAX_KEYWORD_LENGTH)

\* every character of s is a control character (U+0000-U+001F, U+007F-U+009F)
AllControl(s) == \A i \in 1..Len(s) : IsControl(s[i])

\* C13: a raw keyword made only of control characters sanitizes to the empty
\* string and nothing is raised; search_cves answers every keyword that is
\* empty after sanitization with an error object and sends no upstream
\* request; and every upstream request it does send carries exactly the
\* sanitized keyword as keywordSearch.
C13_EmptyKeywordRejected ==
    Entered("search_cves") =>
        LET kw == sanitize_keyword(args.keyword) IN
        /\ AllControl(args.keyword) => kw = <<>>
        /\ kw = <<>> =>
               /\ ReturnedError
               /\ ret.obj.error = "Keyword must not be empty after sanitization"
               /\ sent = <<>>
        /\ sent # <<>> => sent[1].params.keywordSearch = kw

\* C13 witness: the keyword NUL DEL was rejected without an upstream request
C13_Witness ==
    /\ Entered("search_cves")
    /\ args.keyword = <<0, 127>>
    /\ ReturnedError
    /\ sent = <<>>

\* C14: get_cve normalises the identifier (strip, then remove control
\* characters, then upper-case) and queries upstream exactly when the result
\* starts with "CVE-" and has at most 30 characters, with the normalised
\* identifier itself as cveId; a longer result is answered with the "too long"
\* error (never cut down), a result without the prefix with the invalid-format
\* error, and neither sends a request.
C14_CveIdValidated ==
    Entered("get_cve") =>
        LET id == Upper(RemoveControl(Strip(args.cve_id)))
            tooLong == Len(id) > MAX_CVE_ID_LENGTH
            prefixed == StartsWith(id, StrCvePrefix)
        IN /\ sent # <<>> <=> (prefixed /\ ~tooLong)
           /\ sent # <<>> => sent[1].params = [cveId |-> id]
           /\ tooLong =>
                  /\ ReturnedError
                  /\ ret.obj.error = "CVE ID too long"
           /\ (~tooLong /\ ~prefixed) =>
                  /\ ReturnedError
                  /\ ret.obj.error = "Invalid CVE ID format. Expected CVE-YYYY-NNNNN"

\* C14 witness: " cve-1 " was queried as "CVE-1"
C14_Witness ==
    /\ Entered("get_cve")
    /\ args.cve_id = <<32, 99, 118, 101, 45, 49, 32>>
    /\ sent # <<>>
    /\ sent[1].params.cveId = StrCvePrefix \o <<49>>

(***************************************************************************)
(* grype-mcp severity filter                                               *)
(***************************************************************************)

\* C15: scan_image accepts a severity that is not blank only if, trimmed and
\* lower-cased, it is one of negligible, low, medium, high, critical; the
\* scanner is then started with that lower-cased value as the argument after
\* --fail-on ("HIGH" is passed as "high"). Any other value is answered with an
\* error that lists the five severities, and no process is started.
C15_SeverityValidated ==
    (tool = "scan_image" /\ ran /\ Strip(args.severity) # <<>>) =>
        LET sev == Lower(Strip(args.severity))
            five == <<StrNegligible, StrLow, StrMedium, StrHigh, StrCritical>>
        IN IF \E i \in 1..5 : sev = five[i]
           THEN /\ Len(spawned) = 1
                /\ spawned[1].argv =
                       <<StrGrype, Strip(args.image), StrDashO, StrJson, StrFailOn, sev>>
           ELSE /\ spawned = <<>>
                /\ ReturnedError
                /\ ret.obj.error = "Invalid severity. Must be one of: {}"
                /\ ret.interp = Join(CommaSpace, five)

\* C15 witness: severity "HIGH" started grype with --fail-on high
C15_Witness ==
    /\ tool = "scan_image"
    /\ args.severity = <<72, 73, 71, 72>>
    /\ Len(spawned) = 1
    /\ SubSeq(spawned[1].argv, 5, 6) = <<StrFailOn, StrHigh>>

(***************************************************************************)
(* nvd-mcp upstream answers                                                *)
(***************************************************************************)

\* the tool read the body of the upstream answer: resp.json() raised, or the
\* tool went on to the parsed data (a result, or get_cve's "not found")
ParsedBody ==
    \/ ret.kind = "raise"
    \/ ReturnedJson /\ ret.indent = 2
    \/ ReturnedError /\ ret.obj.error = "CVE {} not found"

\* C16: in get_cve and search_cves an upstream answer with status 403 yields
\* the error that mentions rate limiting; every other status but 200 yields a
\* different, generic error with the status code and at most the first 500
\* characters of the body; the body is parsed only when the status is 200; and
\* a 200 answer without vulnerabilities makes get_cve return "not found".
C16_StatusClassified ==
    (server = "nvd" /\ sent # <<>> /\ ext.kind = "response") =>
        /\ ext.status_code = 403 =>
               /\ ReturnedError
               /\ DOMAIN ret.obj = {"error"}
               /\ ret.obj.error =
                      "Rate limited by NVD API. Set NVD_API_KEY for higher limits (50 req/30s)."
        /\ ext.status_code \notin {200, 403} =>
               /\ ReturnedError
               /\ DOMAIN ret.obj = {"error", "body"}
               /\ ret.obj.error = "NVD API returned HTTP " \o ToString(ext.status_code)
               /\ ret.obj.body.lo = ext.text.lo
               /\ ret.obj.body.hi = Min(ext.text.hi, ext.text.lo + 500)
        /\ ParsedBody => ext.status_code = 200
        /\ (/\ tool = "get_cve"
            /\ ext.status_code = 200
            /\ ext.json = "dict"
            /\ ext.vulnerabilities \in {<<>>, <<<<>>>>}) =>
               /\ ReturnedError
               /\ ret.obj.error = "CVE {} not found"
               /\ ret.interp = sent[1].params.cveId

\* C16 witness: search_cves was answered 403 and reported the rate limit
C16_Witness ==
    /\ tool = "search_cves"
    /\ sent # <<>>
    /\ ext.kind = "response"
    /\ ext.status_code = 403
    /\ ReturnedError
    /\ ret.obj.error =
           "Rate limited by NVD API. Set NVD_API_KEY for higher limits (50 req/30s)."

\* C17: whatever result count n the caller asks for (0, negative and above 50
\* included), the resultsPerPage search_cves sends is max(1, min(n, 50)): n
\* itself inside 1..50, 1 below, 50 above, so always within 1..50.
C17_ResultsClamped ==
    (Entered("search_cves") /\ sent # <<>>) =>
        LET n == args.results
            page == sent[1].params.resultsPerPage
        IN /\ page = (IF n < 1 THEN 1 ELSE IF n > 50 THEN 50 ELSE n)
           /\ page \in 1..50

\* C17 witness: a request for 100 results was sent as 50
C17_Witness ==
    /\ Entered("search_cves")
    /\ args.results = 100
    /\ sent # <<>>
    /\ sent[1].params.resultsPerPage = 50

\* the requests the same server sends for other arguments of either tool, and
\* the requests that are waiting for their answer beside this one
OtherRequests ==
    {get_cve_send(id, NVD_API_KEY).sent : id \in {i \in CveIds : Len(i) <= 7}}
    \cup {search_cves_send(a.keyword, a.results, NVD_API_KEY).sent :
             a \in {i \in SearchInputs : Len(i.keyword) <= 3}}
    \cup {r.sent : r \in InPhase("get")}

\* C18: the destination of an outbound request does not depend on the caller.
\* Every request goes to the fixed NVD URL and carries the caller's data only
\* in its query parameters; the apiKey header is present exactly when the
\* server has an API key configured, and then holds that key; and any other
\* call, with other arguments, that sends a request sends it to the same URL
\* with the same headers.
C18_DestinationFixed ==
    (server = "nvd" /\ sent # <<>>) =>
        /\ Len(sent) = 1
        /\ sent[1].url = "https://services.nvd.nist.gov/rest/json/cves/2.0"
        /\ DOMAIN sent[1].params =
               (IF tool = "get_cve" THEN {"cveId"} ELSE {"keywordSearch", "resultsPerPage"})
        /\ "apiKey" \in DOMAIN sent[1].headers <=> NVD_API_KEY # <<>>
        /\ NVD_API_KEY # <<>> => sent[1].headers.apiKey = NVD_API_KEY
        /\ sent[1].headers.Accept = "application/json"
        /\ \A other \in OtherRequests :
               other # <<>> =>
                   /\ other[1].url = sent[1].url
                   /\ other[1].headers = sent[1].headers

\* C18 witness: a server with an API key configured sent it with a keyword
\* search
C18_Witness ==
    /\ tool = "search_cves"
    /\ NVD_API_KEY = <<107>>
    /\ sent # <<>>
    /\ sent[1].headers.apiKey = <<107>>
    /\ sent[1].url = NVD_BASE_URL

====
